---- MODULE Spec2Model ----
(***************************************************************************)
(* fix_imports.py: rewrites relative import/export paths of the Dart files *)
(* under lib/ through a fixed mapping, writes back the files that changed  *)
(* and prints per-file status lines and a summary.                         *)
(*                                                                         *)
(* Text is modelled as a sequence of tokens whose concatenation is the     *)
(* file's text: the keywords, single whitespace characters, the two quote  *)
(* characters, whole path literals, and other source text.                 *)
(***************************************************************************)
EXTENDS Integers, Sequences, FiniteSets, TLC

\* Number of consecutive invocations of the script that are explored.
MaxRuns == 3
\* Most statements in a generated file.
MaxStmts == 2
\* Most file operations that fail over all the invocations explored.
MaxFaults == 1
\* Most tokens of a content that reach the file when its write fails.
MaxWritten == 1

(***************************************************************************)
(* The dict literal of fix_imports, entry by entry as written              *)
(* (fix_imports.py lines 10-207), duplicate keys included.                 *)
(***************************************************************************)
import_mappings_literal ==
  <<
    <<"../core/models/note.dart", "../../../core/models/note.dart">>,
    <<"../../models/note.dart", "../../../core/models/note.dart">>,
    <<"../models/note.dart", "../../core/models/note.dart">>,
    <<"../core/models/page.dart", "../../../core/models/page.dart">>,
    <<"../../models/page.dart", "../../../core/models/page.dart">>,
    <<"../models/page.dart", "../../core/models/page.dart">>,
    <<"../core/models/flash_card.dart", "../../../core/models/flash_card.dart">>,
    <<"../../models/flash_card.dart", "../../../core/models/flash_card.dart">>,
    <<"../models/flash_card.dart", "../../core/models/flash_card.dart">>,
    <<"../core/models/dictionary.dart", "../../../core/models/dictionary.dart">>,
    <<"../../models/dictionary.dart", "../../../core/models/dictionary.dart">>,
    <<"../models/dictionary.dart", "../../core/models/dictionary.dart">>,
    <<"../core/models/processed_text.dart", "../../../core/models/processed_text.dart">>,
    <<"../../models/processed_text.dart", "../../../core/models/processed_text.dart">>,
    <<"../models/processed_text.dart", "../../core/models/processed_text.dart">>,
    <<"../core/models/processing_status.dart", "../../../core/models/processing_status.dart">>,
    <<"../../models/processing_status.dart", "../../../core/models/processing_status.dart">>,
    <<"../models/processing_status.dart", "../../core/models/processing_status.dart">>,
    <<"../core/models/text_unit.dart", "../../../core/models/text_unit.dart">>,
    <<"../../models/text_unit.dart", "../../../core/models/text_unit.dart">>,
    <<"../models/text_unit.dart", "../../core/models/text_unit.dart">>,
    <<"../core/theme/tokens/color_tokens.dart", "../../../core/theme/tokens/color_tokens.dart">>,
    <<"../../core/theme/tokens/color_tokens.dart", "../../../core/theme/tokens/color_tokens.dart">>,
    <<"../theme/tokens/color_tokens.dart", "../../core/theme/tokens/color_tokens.dart">>,
    <<"../core/theme/tokens/typography_tokens.dart", "../../../core/theme/tokens/typography_tokens.dart">>,
    <<"../../core/theme/tokens/typography_tokens.dart", "../../../core/theme/tokens/typography_tokens.dart">>,
    <<"../theme/tokens/typography_tokens.dart", "../../core/theme/tokens/typography_tokens.dart">>,
    <<"../core/theme/tokens/spacing_tokens.dart", "../../../core/theme/tokens/spacing_tokens.dart">>,
    <<"../../core/theme/tokens/spacing_tokens.dart", "../../../core/theme/tokens/spacing_tokens.dart">>,
    <<"../theme/tokens/spacing_tokens.dart", "../../core/theme/tokens/spacing_tokens.dart">>,
    <<"../core/theme/tokens/ui_tokens.dart", "../../../core/theme/tokens/ui_tokens.dart">>,
    <<"../../core/theme/tokens/ui_tokens.dart", "../../../core/theme/tokens/ui_tokens.dart">>,
    <<"../theme/tokens/ui_tokens.dart", "../../core/theme/tokens/ui_tokens.dart">>,
    <<"../../core/services/media/image_service.dart", "../media/image_service.dart">>,
    <<"../../core/services/common/usage_limit_service.dart", "../common/usage_limit_service.dart">>,
    <<"../../core/services/text_processing/llm_text_processing.dart", "../text_processing/llm_text_processing.dart">>,
    <<"../core/services/content/note_service.dart", "../../../core/services/content/note_service.dart">>,
    <<"../../core/services/content/note_service.dart", "../../../core/services/content/note_service.dart">>,
    <<"../services/content/note_service.dart", "../../core/services/content/note_service.dart">>,
    <<"../core/services/content/page_service.dart", "../../../core/services/content/page_service.dart">>,
    <<"../../core/services/content/page_service.dart", "../../../core/services/content/page_service.dart">>,
    <<"../services/content/page_service.dart", "../../core/services/content/page_service.dart">>,
    <<"../core/services/media/image_service.dart", "../../../core/services/media/image_service.dart">>,
    <<"../../core/services/media/image_service.dart", "../../../core/services/media/image_service.dart">>,
    <<"../services/media/image_service.dart", "../../core/services/media/image_service.dart">>,
    <<"../media/image_service.dart", "../../core/services/media/image_service.dart">>,
    <<"../core/services/media/image_cache_service.dart", "../../../core/services/media/image_cache_service.dart">>,
    <<"../../core/services/media/image_cache_service.dart", "../../../core/services/media/image_cache_service.dart">>,
    <<"../services/media/image_cache_service.dart", "../../core/services/media/image_cache_service.dart">>,
    <<"../core/services/tts/tts_service.dart", "../../../core/services/tts/tts_service.dart">>,
    <<"../../core/services/tts/tts_service.dart", "../../../core/services/tts/tts_service.dart">>,
    <<"../services/tts/tts_service.dart", "../../core/services/tts/tts_service.dart">>,
    <<"../core/services/tts/tts_playback_service.dart", "../../../core/services/tts/tts_playback_service.dart">>,
    <<"../../core/services/tts/tts_playback_service.dart", "../../../core/services/tts/tts_playback_service.dart">>,
    <<"../services/tts/tts_playback_service.dart", "../../core/services/tts/tts_playback_service.dart">>,
    <<"../core/services/tts/tts_api_service.dart", "../../../core/services/tts/tts_api_service.dart">>,
    <<"../../core/services/tts/tts_api_service.dart", "../../../core/services/tts/tts_api_service.dart">>,
    <<"../services/tts/tts_api_service.dart", "../../core/services/tts/tts_api_service.dart">>,
    <<"../tts/tts_api_service.dart", "../../core/services/tts/tts_api_service.dart">>,
    <<"../core/services/dictionary/dictionary_service.dart", "../../../core/services/dictionary/dictionary_service.dart">>,
    <<"../../core/services/dictionary/dictionary_service.dart", "../../../core/services/dictionary/dictionary_service.dart">>,
    <<"../services/dictionary/dictionary_service.dart", "../../core/services/dictionary/dictionary_service.dart">>,
    <<"../core/services/dictionary/cc_cedict_service.dart", "../../../core/services/dictionary/cc_cedict_service.dart">>,
    <<"../../core/services/dictionary/cc_cedict_service.dart", "../../../core/services/dictionary/cc_cedict_service.dart">>,
    <<"../services/dictionary/cc_cedict_service.dart", "../../core/services/dictionary/cc_cedict_service.dart">>,
    <<"../core/services/text_processing/llm_text_processing.dart", "../../../core/services/text_processing/llm_text_processing.dart">>,
    <<"../../core/services/text_processing/llm_text_processing.dart", "../../../core/services/text_processing/llm_text_processing.dart">>,
    <<"../services/text_processing/llm_text_processing.dart", "../../core/services/text_processing/llm_text_processing.dart">>,
    <<"../text_processing/llm_text_processing.dart", "../../core/services/text_processing/llm_text_processing.dart">>,
    <<"../core/services/text_processing/ocr_service.dart", "../../../core/services/text_processing/ocr_service.dart">>,
    <<"../../core/services/text_processing/ocr_service.dart", "../../../core/services/text_processing/ocr_service.dart">>,
    <<"../services/text_processing/ocr_service.dart", "../../core/services/text_processing/ocr_service.dart">>,
    <<"../text_processing/ocr_service.dart", "../../core/services/text_processing/ocr_service.dart">>,
    <<"../core/services/common/usage_limit_service.dart", "../../../core/services/common/usage_limit_service.dart">>,
    <<"../../core/services/common/usage_limit_service.dart", "../../../core/services/common/usage_limit_service.dart">>,
    <<"../services/common/usage_limit_service.dart", "../../core/services/common/usage_limit_service.dart">>,
    <<"../common/usage_limit_service.dart", "../../core/services/common/usage_limit_service.dart">>,
    <<"../core/services/cache/note_cache_service.dart", "../../../core/services/cache/note_cache_service.dart">>,
    <<"../../core/services/cache/note_cache_service.dart", "../../../core/services/cache/note_cache_service.dart">>,
    <<"../services/cache/note_cache_service.dart", "../../core/services/cache/note_cache_service.dart">>,
    <<"../cache/note_cache_service.dart", "../../core/services/cache/note_cache_service.dart">>,
    <<"../core/widgets/pika_button.dart", "../../../core/widgets/pika_button.dart">>,
    <<"../../core/widgets/pika_button.dart", "../../../core/widgets/pika_button.dart">>,
    <<"../widgets/pika_button.dart", "../../core/widgets/pika_button.dart">>,
    <<"../core/widgets/tts_button.dart", "../../../core/widgets/tts_button.dart">>,
    <<"../../core/widgets/tts_button.dart", "../../../core/widgets/tts_button.dart">>,
    <<"../widgets/tts_button.dart", "../../core/widgets/tts_button.dart">>,
    <<"../core/widgets/dot_loading_indicator.dart", "../../../core/widgets/dot_loading_indicator.dart">>,
    <<"../../core/widgets/dot_loading_indicator.dart", "../../../core/widgets/dot_loading_indicator.dart">>,
    <<"../widgets/dot_loading_indicator.dart", "../../core/widgets/dot_loading_indicator.dart">>,
    <<"../core/widgets/loading_dialog_experience.dart", "../../../core/widgets/loading_dialog_experience.dart">>,
    <<"../../core/widgets/loading_dialog_experience.dart", "../../../core/widgets/loading_dialog_experience.dart">>,
    <<"../widgets/loading_dialog_experience.dart", "../../core/widgets/loading_dialog_experience.dart">>,
    <<"../core/utils/date_formatter.dart", "../../../core/utils/date_formatter.dart">>,
    <<"../../core/utils/date_formatter.dart", "../../../core/utils/date_formatter.dart">>,
    <<"../utils/date_formatter.dart", "../../core/utils/date_formatter.dart">>,
    <<"../core/utils/context_menu_manager.dart", "../../../core/utils/context_menu_manager.dart">>,
    <<"../../core/utils/context_menu_manager.dart", "../../../core/utils/context_menu_manager.dart">>,
    <<"../utils/context_menu_manager.dart", "../../core/utils/context_menu_manager.dart">>,
    <<"../core/utils/segment_utils.dart", "../../../core/utils/segment_utils.dart">>,
    <<"../../core/utils/segment_utils.dart", "../../../core/utils/segment_utils.dart">>,
    <<"../utils/segment_utils.dart", "../../core/utils/segment_utils.dart">>,
    <<"../core/managers/note_creation_ui_manager.dart", "../../../core/managers/note_creation_ui_manager.dart">>,
    <<"../../core/managers/note_creation_ui_manager.dart", "../../../core/managers/note_creation_ui_manager.dart">>,
    <<"../managers/note_creation_ui_manager.dart", "../../core/managers/note_creation_ui_manager.dart">>,
    <<"../../widgets/flashcard_counter_badge.dart", "../flashcard/flashcard_counter_badge.dart">>,
    <<"../widgets/flashcard_counter_badge.dart", "../flashcard/flashcard_counter_badge.dart">>,
    <<"flashcard_counter_badge.dart", "../flashcard/flashcard_counter_badge.dart">>,
    <<"../../widgets/note_list_item.dart", "../home/note_list_item.dart">>,
    <<"../widgets/note_list_item.dart", "../home/note_list_item.dart">>,
    <<"note_list_item.dart", "../home/note_list_item.dart">>,
    <<"../../../widgets/edit_title_dialog.dart", "../../../core/widgets/edit_title_dialog.dart">>,
    <<"../../widgets/edit_title_dialog.dart", "../../core/widgets/edit_title_dialog.dart">>,
    <<"../widgets/edit_title_dialog.dart", "../../core/widgets/edit_title_dialog.dart">>,
    <<"../../../widgets/delete_note_dialog.dart", "../../../core/widgets/delete_note_dialog.dart">>,
    <<"../../widgets/delete_note_dialog.dart", "../../core/widgets/delete_note_dialog.dart">>,
    <<"../widgets/delete_note_dialog.dart", "../../core/widgets/delete_note_dialog.dart">>,
    <<"../../../widgets/note_action_bottom_sheet.dart", "../view/note_action_bottom_sheet.dart">>,
    <<"../../widgets/note_action_bottom_sheet.dart", "../view/note_action_bottom_sheet.dart">>,
    <<"../widgets/note_action_bottom_sheet.dart", "../view/note_action_bottom_sheet.dart">>,
    <<"../../widgets/note_progress_bar.dart", "../view/note_progress_bar.dart">>,
    <<"../widgets/note_progress_bar.dart", "../view/note_progress_bar.dart">>,
    <<"../../widgets/page_indicator.dart", "../view/page_indicator.dart">>,
    <<"../widgets/page_indicator.dart", "../view/page_indicator.dart">>,
    <<"../../widgets/page_navigation_button.dart", "../view/page_navigation_button.dart">>,
    <<"../widgets/page_navigation_button.dart", "../view/page_navigation_button.dart">>,
    <<"../../widgets/tts_play_all_button.dart", "../tts/tts_play_all_button.dart">>,
    <<"../widgets/tts_play_all_button.dart", "../tts/tts_play_all_button.dart">>,
    <<"../features/flashcard/flashcard_screen.dart", "../flashcard/flashcard_screen.dart">>,
    <<"../../features/flashcard/flashcard_screen.dart", "../flashcard/flashcard_screen.dart">>,
    <<"../features/sample/sample_flashcard_screen.dart", "../sample/sample_flashcard_screen.dart">>,
    <<"../../features/sample/sample_flashcard_screen.dart", "../sample/sample_flashcard_screen.dart">>,
    <<"../../views/screens/full_image_screen.dart", "../../../views/screens/full_image_screen.dart">>,
    <<"../views/screens/full_image_screen.dart", "../../views/screens/full_image_screen.dart">>,
    <<"../features/flashcard/flashcard_view_model.dart", "../flashcard/flashcard_view_model.dart">>,
    <<"../../features/flashcard/flashcard_view_model.dart", "../flashcard/flashcard_view_model.dart">>,
    <<"../../features/flashcard/flashcard_view_model.dart", "../flashcard/flashcard_view_model.dart">>,
    <<"../../../features/flashcard/flashcard_view_model.dart", "../flashcard/flashcard_view_model.dart">>,
    <<"widgets/loading_screen.dart", "views/screens/loading_screen.dart">>
  >>


(***************************************************************************)
(* A Python dict display keeps each key at the position of its first       *)
(* occurrence and gives it the value of its last occurrence.               *)
(***************************************************************************)
\* Entries of the display that introduce a key: they fix the iteration order.
FirstOccurrences(lit) ==
  {i \in 1..Len(lit) : \A j \in 1..(i - 1) : lit[j][1] # lit[i][1]}

\* The value of the first entry of the display that has key k.
ValueOfFirst(lit, k) ==
  lit[CHOOSE i \in 1..Len(lit) :
        lit[i][1] = k /\ \A j \in 1..(i - 1) : lit[j][1] # k][2]

\* The value the display leaves under key k: that of its last entry for k.
ValueOf(lit, k) ==
  lit[CHOOSE i \in 1..Len(lit) :
        lit[i][1] = k /\ \A j \in (i + 1)..Len(lit) : lit[j][1] # k][2]

\* dict.items() of the display lit.
DictItems(lit) ==
  LET first == FirstOccurrences(lit)
      nth(n) == CHOOSE i \in first : Cardinality({j \in first : j <= i}) = n
  IN [n \in 1..Cardinality(first) |-> <<lit[nth(n)][1], ValueOf(lit, lit[nth(n)][1])>>]

\* import_mappings.items(): the pairs the mapping loop iterates, in order.
import_mappings == DictItems(import_mappings_literal)

Keys == {import_mappings[j][1] : j \in 1..Len(import_mappings)}

Lookup(k) ==
  LET j == CHOOSE j \in 1..Len(import_mappings) : import_mappings[j][1] = k
  IN import_mappings[j][2]

(***************************************************************************)
(* re.sub(f"<kw>\\s+['\"](<old>)['\"]", f"<kw> '<new>'", content)          *)
(***************************************************************************)
Space == {" ", "\n", "\t"}
Quote == {"'", "\""}

RECURSIVE SkipSpace(_, _)
SkipSpace(s, j) ==
  IF j <= Len(s) /\ s[j] \in Space THEN SkipSpace(s, j + 1) ELSE j

\* A mismatch on the path still counts as a match.
MatchEndAnyPath(kw, old, s, i) ==
  IF s[i] # kw THEN 0
  ELSE LET j == SkipSpace(s, i + 1)
       IN IF /\ j > i + 1
             /\ j + 2 <= Len(s)
             /\ s[j] \in Quote
             /\ s[j + 1] \notin (Space \cup Quote)
             /\ s[j + 2] \in Quote
            THEN j + 2 ELSE 0

\* Index of the last token of a match of the pattern that starts at token i,
\* 0 when the pattern does not match there.
MatchEnd(kw, old, s, i) ==
  IF s[i] # kw THEN 0
  ELSE LET j == SkipSpace(s, i + 1)
       IN IF /\ j > i + 1
             /\ j + 2 <= Len(s)
             /\ s[j] \in Quote
             /\ s[j + 1] = old
             /\ s[j + 2] \in Quote
            THEN j + 2 ELSE 0

ReplacementDoubleQuoted(kw, new) == <<kw, " ", "\"", new, "\"">>

\* The replacement template f"<kw> '<new>'".
Replacement(kw, new) == <<kw, " ", "'", new, "'">>

\* Only the leftmost match from token i on is replaced, as with count=1.
RECURSIVE ReplaceFirstFrom(_, _, _, _, _)
ReplaceFirstFrom(kw, old, new, s, i) ==
  IF i > Len(s) THEN <<>>
  ELSE LET e == MatchEnd(kw, old, s, i)
       IN IF e > 0
            THEN Replacement(kw, new) \o SubSeq(s, e + 1, Len(s))
            ELSE <<s[i]>> \o ReplaceFirstFrom(kw, old, new, s, i + 1)

\* Leftmost, non-overlapping replacement of every match from token i on.
RECURSIVE ReplaceFrom(_, _, _, _, _)
ReplaceFrom(kw, old, new, s, i) ==
  IF i > Len(s) THEN <<>>
  ELSE LET e == MatchEnd(kw, old, s, i)
       IN IF e > 0
            THEN Replacement(kw, new) \o ReplaceFrom(kw, old, new, s, e + 1)
            ELSE <<s[i]>> \o ReplaceFrom(kw, old, new, s, i + 1)

\* re.sub(pattern, replacement, s): s itself when the pattern matches nowhere.
re_sub(kw, old, new, s) ==
  IF \A i \in 1..Len(s) : MatchEnd(kw, old, s, i) = 0
    THEN s
    ELSE ReplaceFrom(kw, old, new, s, 1)

\* One iteration of the mapping loop: the import pattern, then the export one.
ApplyEntry(entry, content) ==
  re_sub("export", entry[1], entry[2],
         re_sub("import", entry[1], entry[2], content))

\* The mapping loop over pairs lo..hi of items, in order.  The range is
\* halved, and the first half's result is bound before the second half is
\* applied to it, so that the evaluation does not nest once per pair.
RECURSIVE ApplyMappings(_, _, _, _)
ApplyMappings(items, lo, hi, content) ==
  IF lo > hi THEN content
  ELSE IF lo = hi THEN ApplyEntry(items[lo], content)
  ELSE LET mid == (lo + hi) \div 2
       IN CHOOSE result \in
            {ApplyMappings(items, mid + 1, hi, half) :
               half \in {ApplyMappings(items, lo, mid, content)}} : TRUE

\* The content the mapping loop leaves in memory for a file read as content.
Transform(content) == ApplyMappings(import_mappings, 1, Len(import_mappings), content)

(***************************************************************************)
(* The file system.  A path is its directory segments, base name and       *)
(* extension; a tree maps the paths that exist to their contents.          *)
(***************************************************************************)
MainDart == [dir |-> <<"lib">>, name |-> "main", ext |-> "dart"]
HomeDart == [dir |-> <<"lib", "views">>, name |-> "home", ext |-> "dart"]
ReadmeMd == [dir |-> <<"lib">>, name |-> "README", ext |-> "md"]
ToolDart == [dir |-> <<"tool">>, name |-> "gen", ext |-> "dart"]

\* glob.glob("lib/**/*.dart", recursive=True), as a set of paths.
glob(tree) == {f \in DOMAIN tree : f.dir[1] = "lib" /\ f.ext = "dart"}

\* The orders in which directory enumeration may return the files.
Orders(S) ==
  {q \in [1..Cardinality(S) -> S] : \A a, b \in 1..Cardinality(S) : a # b => q[a] # q[b]}

(***************************************************************************)
(* Initial trees.                                                          *)
(***************************************************************************)
Stmt(kw, sp, q1, p, q2) == <<kw>> \o sp \o <<q1, p, q2, ";", "\n">>

SampleStmts ==
  { Stmt("import", <<" ">>, "\"", "../models/note.dart", "\""),
    Stmt("import", <<" ">>, "'", "../widgets/pika_button.dart", "'"),
    Stmt("export", <<"\n", "\t">>, "\"", "../../core/widgets/pika_button.dart", "'"),
    Stmt("import", <<" ">>, "\"", "package:flutter/material.dart", "\""),
    Stmt("import", <<>>, "'", "../models/note.dart", "'") }

RECURSIVE Concat(_)
Concat(ss) == IF ss = <<>> THEN <<>> ELSE Head(ss) \o Concat(Tail(ss))

SampleContents ==
  {Concat(ss) : ss \in UNION {[1..n -> SampleStmts] : n \in 0..MaxStmts}}

HomeContents ==
  { Stmt("import", <<" ">>, "'", "package:flutter/material.dart", "'"),
    Stmt("export", <<" ">>, "\"", "../widgets/pika_button.dart", "\"") }

AllPaths ==
  {import_mappings_literal[j][1] : j \in 1..Len(import_mappings_literal)}
    \cup {import_mappings_literal[j][2] : j \in 1..Len(import_mappings_literal)}

TableContents == {Stmt("import", <<" ">>, "\"", p, "\"") : p \in AllPaths}

\* Files the glob never selects; they are the same in every tree.
Outside ==
  [f \in {ReadmeMd, ToolDart} |-> Stmt("import", <<" ">>, "'", "../models/note.dart", "'")]

Tree(main, homes) ==
  [f \in {MainDart} \cup {HomeDart : h \in homes} \cup DOMAIN Outside |->
     IF f = MainDart THEN main
     ELSE IF f = HomeDart THEN CHOOSE h \in homes : TRUE
     ELSE Outside[f]]

Trees ==
  {Outside}
    \cup {Tree(m, {}) : m \in SampleContents \cup TableContents}
    \cup {Tree(m, {h}) : m \in SampleStmts, h \in HomeContents}

(***************************************************************************)
(* State                                                                   *)
(***************************************************************************)
VARIABLES
  disk,              \* the tree on disk
  pc,                \* position of the script
  dart_files,        \* the list glob returned
  total_files,
  modified_files,
  idx,               \* position of the file loop in dart_files
  content,
  original_content,
  output,            \* the lines printed by this invocation
  run,               \* number of this invocation
  before,            \* the tree when this invocation started
  status,            \* outcome of each listed file in this invocation
  opened,            \* files this invocation opened for writing
  modified_by_run,   \* modified_files of every finished invocation
  faults             \* number of file operations that have failed so far

vars ==
  <<disk, pc, dart_files, total_files, modified_files, idx, content,
    original_content, output, run, before, status, opened, modified_by_run,
    faults>>

file_path == dart_files[idx]

Init ==
  /\ disk \in Trees
  /\ pc = "start"
  /\ dart_files = <<>>
  /\ total_files = 0
  /\ modified_files = 0
  /\ idx = 1
  /\ content = <<>>
  /\ original_content = <<>>
  /\ output = <<>>
  /\ run = 1
  /\ before = disk
  /\ status = <<>>
  /\ opened = {}
  /\ modified_by_run = <<>>
  /\ faults = 0

(***************************************************************************)
(* Steps of fix_imports                                                    *)
(***************************************************************************)
\* Lines 210-215: enumerate the files, reset the counters, print the header.
Glob ==
  /\ pc = "start"
  /\ \E listing \in Orders(glob(disk)) :
       /\ dart_files' = listing
       /\ total_files' = Len(listing)
       /\ output' = <<<<"header", Len(listing)>>>>
       /\ status' = [f \in glob(disk) |-> "pending"]
  /\ modified_files' = 0
  /\ idx' = 1
  /\ pc' = "loop"
  /\ UNCHANGED <<disk, content, original_content, run, before, opened,
                 modified_by_run, faults>>

\* A failure that ends the whole run instead of the file.
ExceptAbort(msg) ==
  /\ output' = Append(output, <<"error", file_path, msg>>)
  /\ status' = [status EXCEPT ![file_path] = "error"]
  /\ idx' = total_files + 1
  /\ pc' = "loop"
  /\ faults' = faults + 1

\* The except clause of line 243-244: log the file and go on with the next.
Except(msg) ==
  /\ output' = Append(output, <<"error", file_path, msg>>)
  /\ status' = [status EXCEPT ![file_path] = "error"]
  /\ idx' = idx + 1
  /\ pc' = "loop"
  /\ faults' = faults + 1

\* Lines 219-222: read the file.
ReadFile ==
  /\ pc = "loop"
  /\ idx <= total_files
  /\ content' = disk[file_path]
  /\ original_content' = disk[file_path]
  /\ pc' = "sub"
  /\ UNCHANGED <<disk, dart_files, total_files, modified_files, idx, output,
                 run, before, status, opened, modified_by_run, faults>>

\* Lines 219-220 raise (the file cannot be opened or decoded).
ReadError ==
  /\ pc = "loop"
  /\ idx <= total_files
  /\ faults < MaxFaults
  /\ Except("PermissionError")
  /\ UNCHANGED <<disk, dart_files, total_files, modified_files, content,
                 original_content, run, before, opened, modified_by_run>>

\* Lines 225-234: the mapping loop, in memory.
Substitute ==
  /\ pc = "sub"
  /\ content' = Transform(content)
  /\ pc' = "cmp"
  /\ UNCHANGED <<disk, dart_files, total_files, modified_files, idx,
                 original_content, output, run, before, status, opened,
                 modified_by_run, faults>>

\* The file is rewritten whether or not its content changed.
ChangedAlways(new, old) == TRUE

\* The test of line 237.
Changed(new, old) == new # old

\* The file is unchanged, and a line is printed for it.
UnchangedLogged ==
  /\ pc = "cmp"
  /\ ~Changed(content, original_content)
  /\ output' = Append(output, <<"processed", file_path>>)
  /\ status' = [status EXCEPT ![file_path] = "unchanged"]
  /\ idx' = idx + 1
  /\ pc' = "loop"
  /\ UNCHANGED <<disk, dart_files, total_files, modified_files, content,
                 original_content, run, before, opened, modified_by_run,
                 faults>>

\* Line 237 is false: nothing is written or printed for the file.
Unchanged ==
  /\ pc = "cmp"
  /\ ~Changed(content, original_content)
  /\ status' = [status EXCEPT ![file_path] = "unchanged"]
  /\ idx' = idx + 1
  /\ pc' = "loop"
  /\ UNCHANGED <<disk, dart_files, total_files, modified_files, content,
                 original_content, output, run, before, opened,
                 modified_by_run, faults>>

\* Line 238: open(file_path, 'w') truncates the file.
OpenWrite ==
  /\ pc = "cmp"
  /\ Changed(content, original_content)
  /\ disk' = [disk EXCEPT ![file_path] = <<>>]
  /\ opened' = opened \cup {file_path}
  /\ pc' = "write"
  /\ UNCHANGED <<dart_files, total_files, modified_files, idx, content,
                 original_content, output, run, before, status,
                 modified_by_run, faults>>

\* Line 238 raises: the file is not opened and keeps its content.
OpenWriteError ==
  /\ pc = "cmp"
  /\ faults < MaxFaults
  /\ Changed(content, original_content)
  /\ Except("PermissionError")
  /\ UNCHANGED <<disk, dart_files, total_files, modified_files, content,
                 original_content, run, before, opened, modified_by_run>>

\* Lines 239-241: write and close the file, count it, print the line.
WriteFile ==
  /\ pc = "write"
  /\ disk' = [disk EXCEPT ![file_path] = content]
  /\ modified_files' = modified_files + 1
  /\ output' = Append(output, <<"modified", file_path>>)
  /\ status' = [status EXCEPT ![file_path] = "modified"]
  /\ idx' = idx + 1
  /\ pc' = "loop"
  /\ UNCHANGED <<dart_files, total_files, content, original_content, run,
                 before, opened, modified_by_run, faults>>

\* Line 239 or the close of the with block raises after the truncation:
\* nothing or only a proper prefix of the content has reached the file.
WriteError ==
  /\ pc = "write"
  /\ faults < MaxFaults
  /\ \E k \in 0..MaxWritten :
       /\ k < Len(content)
       /\ disk' = [disk EXCEPT ![file_path] = SubSeq(content, 1, k)]
  /\ Except("OSError")
  /\ UNCHANGED <<dart_files, total_files, modified_files, content,
                 original_content, run, before, opened, modified_by_run>>

\* Line 246: the loop is over, print the summary.
Summary ==
  /\ pc = "loop"
  /\ idx > total_files
  /\ output' = Append(output, <<"summary", modified_files, total_files>>)
  /\ modified_by_run' = Append(modified_by_run, modified_files)
  /\ pc' = "done"
  /\ UNCHANGED <<disk, dart_files, total_files, modified_files, idx, content,
                 original_content, run, before, status, opened, faults>>

\* The script is invoked again on the tree the last invocation left.
Rerun ==
  /\ pc = "done"
  /\ run < MaxRuns
  /\ run' = run + 1
  /\ before' = disk
  /\ pc' = "start"
  /\ dart_files' = <<>>
  /\ total_files' = 0
  /\ modified_files' = 0
  /\ idx' = 1
  /\ content' = <<>>
  /\ original_content' = <<>>
  /\ output' = <<>>
  /\ status' = <<>>
  /\ opened' = {}
  /\ UNCHANGED <<disk, modified_by_run, faults>>

Next ==
  \/ Glob
  \/ ReadFile
  \/ ReadError
  \/ Substitute
  \/ Unchanged
  \/ OpenWrite
  \/ OpenWriteError
  \/ WriteFile
  \/ WriteError
  \/ Summary
  \/ Rerun

Spec == Init /\ [][Next]_vars

TypeOK ==
  /\ pc \in {"start", "loop", "sub", "cmp", "write", "done"}
  /\ run \in 1..MaxRuns
  /\ modified_files \in 0..total_files

(***************************************************************************)
(* Vocabulary of the properties                                            *)
(***************************************************************************)
\* The import/export statements of a text, in order: every place where a
\* keyword is followed by whitespace and a quoted literal.
RECURSIVE Statements(_, _)
Statements(s, i) ==
  IF i > Len(s) THEN <<>>
  ELSE LET j == SkipSpace(s, i + 1)
       IN IF /\ s[i] \in {"import", "export"}
             /\ j > i + 1
             /\ j + 2 <= Len(s)
             /\ s[j] \in Quote
             /\ s[j + 2] \in Quote
            THEN <<[kw |-> s[i], sp |-> SubSeq(s, i + 1, j - 1), q1 |-> s[j],
                    path |-> s[j + 1], q2 |-> s[j + 2]]>>
                   \o Statements(s, j + 3)
            ELSE Statements(s, i + 1)

\* The statement the script writes for keyword kw and path p.
Rewritten(kw, p) == [kw |-> kw, sp |-> <<" ">>, q1 |-> "'", path |-> p, q2 |-> "'"]

\* Position of key k in the order the mapping loop iterates.
PositionOf(k) == CHOOSE j \in 1..Len(import_mappings) : import_mappings[j][1] = k

\* No statement of the text has a mapping key as its path.
NoMatch(s) ==
  LET st == Statements(s, 1) IN \A n \in 1..Len(st) : st[n].path \notin Keys

\* The files the current invocation listed and has finished without error.
Completed == {f \in DOMAIN status : status[f] \in {"modified", "unchanged"}}

\* Positions of the status lines printed about file f.
LinesAbout(f) ==
  {n \in 1..Len(output) :
     /\ output[n][1] \in {"processed", "modified", "error"}
     /\ output[n][2] = f}

Finished == pc = "done"

(***************************************************************************)
(* Properties                                                              *)
(***************************************************************************)
NoteExample == Stmt("import", <<" ">>, "\"", "../models/note.dart", "\"")
PikaExample == Stmt("import", <<" ">>, "'", "../widgets/pika_button.dart", "'")

\* C1: idempotence over the tree.  When the script has run twice in
\* succession and no file operation failed, the second run has modified no
\* file: its modified count is 0 and every file holds the content the first
\* run left.
C1_SecondRunChangesNothing ==
  (Finished /\ run = 2 /\ faults = 0) =>
     /\ modified_files = 0
     /\ \A f \in DOMAIN disk : disk[f] = before[f]

\* C2: rewrite postcondition of one run.  In every file the run completed,
\* each statement <keyword><whitespace><quote>old<quote> whose path old is a
\* mapping key with value new has become <keyword> 'new', with the same
\* keyword, one space and single quotes, and is no longer the old statement,
\* provided no entry iterated after that of old has new as its key.  The two
\* example files of the specification come out as stated.
C2_RewritePostcondition ==
  Finished =>
    /\ \A f \in Completed :
         LET old_st == Statements(before[f], 1)
             new_st == Statements(disk[f], 1)
         IN /\ Len(new_st) = Len(old_st)
            /\ \A n \in 1..Len(old_st) :
                 LET old == old_st[n].path IN
                 (/\ old \in Keys
                  /\ \A j \in (PositionOf(old) + 1)..Len(import_mappings) :
                       import_mappings[j][1] # Lookup(old))
                 => /\ new_st[n] = Rewritten(old_st[n].kw, Lookup(old))
                    /\ new_st[n] # old_st[n]
    /\ \A f \in Completed :
         /\ before[f] = NoteExample
              => disk[f] = Stmt("import", <<" ">>, "'", "../../core/models/note.dart", "'")
         /\ before[f] = PikaExample
              => disk[f] = Stmt("import", <<" ">>, "'", "../../core/widgets/pika_button.dart", "'")

\* Reached: the double-quoted example was rewritten on disk by the first run.
C2_Witness ==
  /\ Finished
  /\ run = 1
  /\ MainDart \in Completed
  /\ before[MainDart] = NoteExample
  /\ disk[MainDart] = Stmt("import", <<" ">>, "'", "../../core/models/note.dart", "'")

\* C3: table-order application.  The content the mapping loop produces for a
\* file equals the result of applying every declared pair of the table one
\* after another in declaration order, duplicate-key declarations included.
C3_DeclarationOrder ==
  pc = "cmp" =>
    content = ApplyMappings(import_mappings_literal, 1,
                            Len(import_mappings_literal), original_content)

\* C4: per-file error isolation.  When the run has ended, every listed file
\* was handled; a file whose read or write raised has an error line, no
\* modified line and is not counted; every other listed file holds exactly
\* the content the mapping loop gives for it and is counted iff that differs
\* from its original content; the summary is the last line, its total is the
\* number of files discovered and its modified count is the number of files
\* rewritten without error.
C4_ErrorIsolation ==
  Finished =>
    /\ DOMAIN status = glob(before)
    /\ total_files = Cardinality(glob(before))
    /\ output[Len(output)] = <<"summary", modified_files, total_files>>
    /\ modified_files = Cardinality({f \in DOMAIN status : status[f] = "modified"})
    /\ \A f \in DOMAIN status :
         IF status[f] = "error"
           THEN /\ \E n \in LinesAbout(f) : output[n][1] = "error"
                /\ \A n \in LinesAbout(f) : output[n][1] # "modified"
           ELSE /\ disk[f] = Transform(before[f])
                /\ status[f] =
                     IF Transform(before[f]) # before[f] THEN "modified" ELSE "unchanged"

\* Reached: one file failed and another file of the same run was rewritten.
C4_Witness ==
  /\ Finished
  /\ \E f, g \in DOMAIN status : status[f] = "error" /\ status[g] = "modified"
  /\ output[Len(output)] = <<"summary", 1, 2>>

\* C5: no-op on files without matches.  A listed file none of whose
\* import/export statements has a mapping key as its path is never opened
\* for writing, holds its original content at every moment of the run, is
\* never reported or counted as modified.
C5_NoMatchNoWrite ==
  /\ \A f \in DOMAIN status :
       NoMatch(before[f]) =>
         /\ f \notin opened
         /\ disk[f] = before[f]
         /\ status[f] # "modified"
         /\ \A n \in LinesAbout(f) : output[n][1] # "modified"
  /\ modified_files <= Cardinality({f \in DOMAIN status : ~NoMatch(before[f])})

\* Reached: a file with an import of an unmapped path was left unchanged.
C5_Witness ==
  /\ Finished
  /\ \E f \in DOMAIN status :
       /\ status[f] = "unchanged"
       /\ NoMatch(before[f])
       /\ Len(Statements(before[f], 1)) > 0

\* The contents a text goes through while pairs lo..hi of items are applied
\* to c one after another: the content after each pair.
RECURSIVE Intermediate(_, _, _, _)
Intermediate(items, lo, hi, c) ==
  IF lo > hi THEN {}
  ELSE IF lo = hi THEN {ApplyEntry(items[lo], c)}
  ELSE LET mid == (lo + hi) \div 2
       IN UNION {Intermediate(items, lo, mid, c) \cup Intermediate(items, mid + 1, hi, half) :
                   half \in {ApplyMappings(items, lo, mid, c)}}

\* C6: interruption invariant.  At every point of a run every file already
\* processed holds its final content (fully transformed, or original if
\* nothing matched or it errored), every file not yet reached holds its
\* original content, and no file holds a content with only some of the
\* mapping entries applied.
C6_InterruptionInvariant ==
  pc # "start" =>
    /\ \A n \in 1..total_files :
         LET f == dart_files[n] IN
         /\ n < idx =>
              disk[f] = IF status[f] = "modified" THEN Transform(before[f])
                        ELSE before[f]
         /\ n > idx => disk[f] = before[f]
    /\ \A f \in DOMAIN disk :
         \/ disk[f] \in {before[f], Transform(before[f])}
         \/ disk[f] \notin Intermediate(import_mappings, 1, Len(import_mappings), before[f])

\* C7 as stated: when the run has ended, every listed file has exactly one
\* status line, of the kind of its outcome ("processed" for an unchanged
\* file), and the summary is printed once, after all of them.
C7_OneLinePerFile ==
  Finished =>
    /\ \A f \in DOMAIN status :
         /\ Cardinality(LinesAbout(f)) = 1
         /\ \A n \in LinesAbout(f) :
              output[n][1] = CASE status[f] = "unchanged" -> "processed"
                               [] status[f] = "modified" -> "modified"
                               [] OTHER -> "error"
    /\ output[Len(output)][1] = "summary"
    /\ Cardinality({n \in 1..Len(output) : output[n][1] = "summary"}) = 1

\* C7 amended: an unchanged file has no status line; a rewritten file has
\* exactly one line, a modified line naming it; a failed file has exactly
\* one line, an error line naming it with the message; the summary is
\* printed once, as the last line, and not before the run has ended.
C7_StatusLines ==
  /\ Finished =>
       /\ \A f \in DOMAIN status :
            CASE status[f] = "unchanged" -> LinesAbout(f) = {}
              [] status[f] = "modified" ->
                   /\ Cardinality(LinesAbout(f)) = 1
                   /\ \A n \in LinesAbout(f) : output[n] = <<"modified", f>>
              [] OTHER ->
                   /\ Cardinality(LinesAbout(f)) = 1
                   /\ \A n \in LinesAbout(f) :
                        output[n][1] = "error" /\ Len(output[n]) = 3
       /\ output[Len(output)] = <<"summary", modified_files, total_files>>
       /\ Cardinality({n \in 1..Len(output) : output[n][1] = "summary"}) = 1
  /\ ~Finished => \A n \in 1..Len(output) : output[n][1] # "summary"

\* Reached: a run ended with an unchanged, a rewritten or failed file each.
C7_Witness ==
  /\ Finished
  /\ \E f, g \in DOMAIN status :
       status[f] = "unchanged" /\ status[g] \in {"modified", "error"}
  /\ Len(output) = 3

\* C8: quote normalisation is confined to matched statements.  In every file
\* the run completed, a statement whose path is a mapping key comes out
\* single-quoted whatever its quotes were, and a statement whose path is no
\* mapping key keeps its text: keyword, whitespace, quotes and path.
C8_QuotesOnlyWhereMatched ==
  Finished =>
    \A f \in Completed :
      LET old_st == Statements(before[f], 1)
          new_st == Statements(disk[f], 1)
      IN /\ Len(new_st) = Len(old_st)
         /\ \A n \in 1..Len(old_st) :
              IF old_st[n].path \in Keys
                THEN new_st[n].q1 = "'" /\ new_st[n].q2 = "'"
                ELSE new_st[n] = old_st[n]

\* Reached: a file with a double-quoted mapped import and a double-quoted
\* unmapped import was rewritten.
C8_Witness ==
  /\ Finished
  /\ MainDart \in DOMAIN status
  /\ status[MainDart] = "modified"
  /\ before[MainDart] =
       NoteExample \o Stmt("import", <<" ">>, "\"", "package:flutter/material.dart", "\"")

\* Following old->new links from any key ends after at most two steps.
LinksEndInTwoSteps ==
  \A k \in Keys : Lookup(k) \in Keys => Lookup(Lookup(k)) \notin Keys

\* C9: convergence of repeated runs.  Following old->new links of the
\* mapping from any key ends after at most two steps, and as long as no
\* file operation fails, a third or later run changes no file and counts
\* none as modified.
C9_ConvergesInTwoRuns ==
  /\ LinksEndInTwoSteps
  /\ (faults = 0 /\ run >= 3) =>
       /\ disk = before
       /\ opened = {}
       /\ modified_files = 0
  /\ faults = 0 =>
       \A n \in 3..Len(modified_by_run) : modified_by_run[n] = 0

\* Reached: the first two runs each rewrote a file and the third none.
C9_Witness ==
  /\ Finished
  /\ run = 3
  /\ faults = 0
  /\ modified_by_run = <<1, 1, 0>>

\* No entry's new path is the key of an entry iterated later.
NoNewPathIsLaterKey ==
  \A a, b \in 1..Len(import_mappings) :
    a < b => import_mappings[a][2] # import_mappings[b][1]

\* C10: no chained rewrite inside one run.  In iteration order no entry's
\* new path is the key of an entry iterated later, and the mapping loop
\* turns the path of every statement whose path is a key into exactly the
\* value mapped to that path, leaving every other statement's path alone.
C10_NoChainInOneRun ==
  /\ NoNewPathIsLaterKey
  /\ pc = "cmp" =>
       LET old_st == Statements(original_content, 1)
           new_st == Statements(content, 1)
       IN /\ Len(new_st) = Len(old_st)
          /\ \A n \in 1..Len(old_st) :
               new_st[n].path = IF old_st[n].path \in Keys
                                  THEN Lookup(old_st[n].path)
                                  ELSE old_st[n].path

\* Reached: a path was rewritten to a path that is itself a key, and the
\* same run did not rewrite it again.
C10_Witness ==
  /\ pc = "cmp"
  /\ original_content = PikaExample
  /\ content = Stmt("import", <<" ">>, "'", "../../core/widgets/pika_button.dart", "'")
  /\ "../../core/widgets/pika_button.dart" \in Keys

====
